---- MODULE Spec2Model ----
(***************************************************************************)
(* A model of funman's result aggregator (server/query.py) and of its      *)
(* interval type (representation/interval.py).                             *)
(*                                                                         *)
(* Floats are modelled as reduced fractions <<n, d>> with d > 0, so that   *)
(* equality of two floats is equality of the two pairs.                    *)
(***************************************************************************)
EXTENDS Integers, Sequences, FiniteSets, TLC

(* ------------------------------ bounds --------------------------------- *)
\* volumes returned by labeled_volume(), search_space_volume() and
\* representable_space_volume() range over 0..MaxVol
MaxVol == 2
\* finite interval bounds range over 0..MaxVal
MaxVal == 3
\* normalization factors range over 1..MaxFactor
MaxFactor == 2
\* a request carries at most MaxParams model parameters and at most
\* MaxParams structure parameters
MaxParams == 2
\* a symbol name has at most MaxSymLen characters
MaxSymLen == 3
\* a point has at most MaxSymbols values
MaxSymbols == 2
\* the values of a point range over 1..MaxValue
MaxValue == 2

VARIABLES
    res,            \* the FunmanResults object: field name -> value
    lastOp,         \* name of the last method called on res
    lastArgs,       \* the arguments of that call (of a finalize_result call,
                    \* the scenario result only)
    raised,         \* the exception that call raised, or "none"
    finalizeCalled, \* has finalize_result(_as_error) been called yet?
    pc,             \* writer thread: 0 = idle, i = about to do write i
    cur,            \* writer thread: the call in progress
    pre,            \* writer thread: res when the call started
    observed,       \* reader thread: what its last poll saw
    a,              \* an Interval (self)
    b,              \* an Interval (other)
    op,             \* the Interval method applied to a and b
    arg,            \* its argument, when it is not b
    out,            \* what the method returned
    request,        \* the FunmanWorkRequest of a FunmanWorkUnit
    model,          \* the class of the work unit's model
    dispatched,     \* what to_scenario() returned
    point,          \* Point.values: a dict, symbol name -> value
    variables,      \* the requested variable names
    timeseries      \* what symbol_timeseries() returned

resVars  == <<lastOp, lastArgs, raised, finalizeCalled>>
concVars == <<pc, cur, pre, observed>>
intVars  == <<a, b, op, arg, out>>
scVars   == <<request, model, dispatched>>
symVars  == <<point, variables, timeseries>>
vars     == <<res, resVars, concVars, intVars, scVars, symVars>>

(* ------------------------------ floats --------------------------------- *)
RECURSIVE GCD(_, _)
GCD(m, n) == IF n = 0 THEN m ELSE GCD(n, m % n)

\* the float n / d, for n >= 0 and d > 0
Frac(n, d) == LET g == GCD(n, d) IN <<n \div g, d \div g>>

Zero == <<0, 1>>
One  == <<1, 1>>

\* Python's None (a record, so that it compares with parameter spaces)
None == [none |-> TRUE]

(* ------------------------------ bounds of intervals -------------------- *)
\* A bound is a float <<n, d>> or one of the two sentinels of
\* funman.constants; the sentinels are strings in the program and are
\* written here as pairs with denominator 0, so that a sentinel differs
\* from every float and bounds can be compared for equality.
NEG_INFINITY == <<-1, 0>>
POS_INFINITY == <<1, 0>>

IsSentinel(x) == x \in {NEG_INFINITY, POS_INFINITY}

\* float(x): a float stays what it is, a sentinel string becomes the IEEE
\* infinity of its sign (written <<-2, 0>> and <<2, 0>>)
Float(x) == IF IsSentinel(x) THEN <<2 * x[1], 0>> ELSE x

\* math_utils: a sentinel is below (above) every finite value and neither
\* below nor above itself; finite values compare exactly
lt(x, y) ==
    IF IsSentinel(x) \/ IsSentinel(y)
    THEN (IF IsSentinel(x) THEN x[1] ELSE 0) < (IF IsSentinel(y) THEN y[1] ELSE 0)
    ELSE x[1] * y[2] < y[1] * x[2]
gt(x, y) == lt(y, x)
lte(x, y) == ~lt(y, x)
gte(x, y) == ~lt(x, y)

\* math_utils.div: a sentinel divided by a positive number is the same
\* sentinel
div(x, n) == IF IsSentinel(x) THEN x ELSE Frac(x[1], x[2] * n)

(* ------------------------------ Interval ------------------------------- *)
check_interval(self) ==
    IF self.lb = self.ub /\ ~self.closed_upper_bound
    THEN [self EXCEPT !.closed_upper_bound = TRUE]
    ELSE self

\* the constructor: the fields, then the model validator
Interval(lb, ub, closed_upper_bound) ==
    check_interval([lb |-> lb, ub |-> ub,
                    closed_upper_bound |-> closed_upper_bound])

from_value(v) == Interval(v, v, TRUE)

disjoint(self, other) == lte(self.ub, other.lb) \/ gte(self.lb, other.ub)

normalize(self, normalization_factor) ==
    Interval(div(self.lb, normalization_factor),
             div(self.lb, normalization_factor), FALSE)

\* __eq__
eq(self, other) == self.lb = other.lb /\ self.ub = other.ub

meets(self, other) == self.ub = other.lb \/ self.lb = other.ub

\* the plain <= of contains() is applied to two floats only: a lower
\* bound is never POS_INFINITY and an upper bound never NEG_INFINITY
contains(self, other) ==
    LET lhs == IF self.lb = NEG_INFINITY \/ other.lb = NEG_INFINITY
               THEN self.lb = NEG_INFINITY \/ other.lb # NEG_INFINITY
               ELSE self.lb[1] * other.lb[2] <= other.lb[1] * self.lb[2]
        rhs == IF self.ub = POS_INFINITY \/ other.ub = POS_INFINITY
               THEN other.ub # POS_INFINITY \/ self.ub = POS_INFINITY
               ELSE other.ub[1] * self.ub[2] <= self.ub[1] * other.ub[2]
    IN lhs /\ rhs

contains_value(self, value) ==
    LET lb_sat == gte(value, self.lb)
        ub_sat == IF self.closed_upper_bound THEN lte(value, self.ub)
                  ELSE lt(value, self.ub)
    IN lb_sat /\ ub_sat

intersects(self, other) ==
    \/ contains_value(self, other.lb)
    \/ contains_value(other, self.lb)
    \/ (contains_value(self, other.ub) /\ gt(other.ub, self.lb))
    \/ (contains_value(other, self.ub) /\ gt(self.ub, other.lb))

\* returns self, or a list of two floats, or the empty list
intersection(self, b_) ==
    IF eq(self, b_) THEN [type |-> "Interval", value |-> <<self>>]
    ELSE LET selfFirst == IF self.lb = b_.lb THEN lt(self.ub, b_.ub)
                          ELSE lt(self.lb, b_.lb)
             minArray == IF selfFirst THEN self ELSE b_
             maxArray == IF selfFirst THEN b_ ELSE self
         IN IF gt(minArray.ub, maxArray.lb)
            THEN [type |-> "list",
                  value |-> <<Float(maxArray.lb), Float(minArray.ub)>>]
            ELSE [type |-> "list", value |-> <<>>]

\* returns an Interval (a one-element sequence here) or None (<<>>)
subtract(self, b_) ==
    IF lt(self.lb, b_.lb) THEN <<Interval(self.lb, b_.lb, FALSE)>>
    ELSE IF gt(self.lb, b_.lb) THEN <<Interval(b_.ub, self.ub, FALSE)>>
    ELSE <<>>

\* returns a list of one or two Intervals
union(self, other) ==
    IF eq(self, other) THEN <<self>>
    ELSE LET selfFirst == IF self.lb = other.lb THEN lt(self.ub, other.lb)
                          ELSE lt(self.lb, other.lb)
             minInterval == IF selfFirst THEN self ELSE other
             maxInterval == IF selfFirst THEN other ELSE self
         IN IF gte(minInterval.ub, maxInterval.lb)
            THEN <<Interval(minInterval.lb, maxInterval.ub, FALSE)>>
            ELSE <<minInterval, maxInterval>>

(* ------------- intervals: two operands, one method applied ------------- *)
FiniteBounds == {<<n, 1>> : n \in 0..MaxVal}

\* the operands: every Interval(lb, ub, closed_upper_bound) with lb <= ub
Operands ==
    {Interval(l, u, c) : <<l, u, c>> \in
        {t \in (FiniteBounds \cup {NEG_INFINITY})
                \X (FiniteBounds \cup {POS_INFINITY}) \X BOOLEAN :
            lte(t[1], t[2])}}

\* no interval in play (the specifications about FunmanResults)
IdleInterval ==
    /\ a = from_value(<<0, 1>>)
    /\ b = from_value(<<0, 1>>)
    /\ op = "idle"
    /\ arg = 0
    /\ out = <<>>

(* ------------------- strings and dicts of the program ------------------ *)
\* A string is the sequence of its characters. A dict is the sequence of
\* its <<key, value>> items in insertion order, with no key twice.
INDEX == <<"i", "n", "d", "e", "x">>

DictKeys(d) == {d[i][1] : i \in DOMAIN d}
DictGet(d, k) == d[CHOOSE i \in DOMAIN d : d[i][1] = k][2]
\* d[k] = v
DictSet(d, k, v) ==
    IF k \in DictKeys(d)
    THEN [i \in DOMAIN d |-> IF d[i][1] = k THEN <<k, v>> ELSE d[i]]
    ELSE Append(d, <<k, v>>)

\* t in s, for two strings
In(t, s) ==
    \E i \in 1..(Len(s) - Len(t) + 1) : SubSeq(s, i, i + Len(t) - 1) = t

Digits == {"0", "1"}
isdigit(t) == t # <<>> /\ \A i \in DOMAIN t : t[i] \in Digits

RECURSIVE int(_)
int(t) ==
    IF t = <<>> THEN 0
    ELSE 10 * int(SubSeq(t, 1, Len(t) - 1))
         + (IF t[Len(t)] = "1" THEN 1 ELSE 0)

\* max() of a non-empty set of integers
max(S) == CHOOSE m \in S : \A n \in S : n <= m

(* ----------------------- FunmanResults: symbols ------------------------ *)
\* symbol.rsplit("_", 1), for a symbol that has a "_"
split_symbol(symbol) ==
    LET k == max({i \in DOMAIN symbol : symbol[i] = "_"})
    IN <<SubSeq(symbol, 1, k - 1), SubSeq(symbol, k + 1, Len(symbol))>>

\* the loop of _symbols over the items of point.values that are left
RECURSIVE symbols_loop(_, _, _)
symbols_loop(symbols, items, vs) ==
    IF items = <<>> THEN symbols
    ELSE LET var == Head(items)[1]
             var_name == split_symbol(var)[1]
             timepoint == split_symbol(var)[2]
             next ==
                IF (\E i \in DOMAIN vs : In(vs[i] \o <<"_">>, var))
                   /\ timepoint # <<>>
                THEN DictSet(symbols, var_name,
                        DictSet(IF var_name \in DictKeys(symbols)
                                THEN DictGet(symbols, var_name) ELSE <<>>,
                                timepoint, var))
                ELSE symbols
         IN symbols_loop(next, Tail(items), vs)

symbols_of(pt, vs) == symbols_loop(<<>>, pt, vs)

\* float(value) of a float is the value; no OverflowError for a float
symbol_values(pt, vs) ==
    LET vars_ == symbols_of(pt, vs)
    IN [i \in DOMAIN vars_ |->
          <<vars_[i][1],
            [j \in DOMAIN vars_[i][2] |->
                <<vars_[i][2][j][1], DictGet(pt, vars_[i][2][j][2])>>]>>]

\* the inner loop of symbol_timeseries: vals[int(t)] = v for the digit t
RECURSIVE vals_loop(_, _)
vals_loop(vals, tps) ==
    IF tps = <<>> THEN vals
    ELSE LET t == Head(tps)[1]
             v == Head(tps)[2]
         IN vals_loop(IF isdigit(t) THEN [vals EXCEPT ![int(t) + 1] = v]
                      ELSE vals,
                      Tail(tps))

\* max() of an empty list raises ValueError
symbol_timeseries(pt, vs) ==
    LET series == symbol_values(pt, vs)
    IN IF series = <<>>
       THEN [raised |-> "ValueError", a_series |-> <<>>]
       ELSE LET max_t ==
                    max({max({int(tp[1]) : tp \in
                                {series[i][2][j] : j \in DOMAIN series[i][2]}
                                \cap {x \in {series[i][2][j] :
                                               j \in DOMAIN series[i][2]} :
                                        isdigit(x[1])}}
                             \cup {0}) : i \in DOMAIN series})
            IN [raised |-> "none",
                a_series |->
                    <<<<INDEX, [i \in 1..(max_t + 1) |-> i - 1]>>>>
                    \o [i \in DOMAIN series |->
                          <<series[i][1],
                            vals_loop([k \in 1..(max_t + 1) |-> None],
                                      series[i][2])>>]]

(* ---------------- symbols: one point, one list of variables ------------ *)
Chars == {"x", "y", "_", "0", "1"}

Symbols == UNION {[1..n -> Chars] : n \in 1..MaxSymLen}

PointValues == {[float |-> n] : n \in 1..MaxValue}

\* the dicts of at most MaxSymbols items, symbol -> value
Points ==
    {pt \in UNION {[1..n -> Symbols \X PointValues] : n \in 0..MaxSymbols} :
        \A i, j \in DOMAIN pt : pt[i][1] = pt[j][1] => i = j}

VariableLists == {<<>>, <<<<"x">>>>, <<<<"x">>, <<"y">>>>}

\* no point in play
IdleSymbols ==
    /\ point = <<>>
    /\ variables = <<>>
    /\ timeseries = [raised |-> "idle", a_series |-> <<>>]

(* --------------------------- FunmanWorkUnit ---------------------------- *)
LABEL_ANY == "any"
LABEL_ALL == "all"

\* a labeled parameter is identified by its label (its name and bounds are
\* copied and play no part in the dispatch); an Optional list that is None
\* is written NoList
NoList == <<"None">>

ParameterLists ==
    UNION {[1..n -> {LABEL_ANY, LABEL_ALL}] : n \in 0..MaxParams}

Requests ==
    [parameters : ParameterLists \cup {NoList},
     structure_parameters : ParameterLists \cup {NoList}]

Models == {"PetrinetModel", "RegnetModel", "EnsembleModel"}

\* the list of ModelParameter / StructureParameter objects built from a
\* request field
ParametersOf(class, field) ==
    IF field = NoList THEN <<>>
    ELSE [i \in DOMAIN field |-> [class |-> class, label |-> field[i]]]

to_scenario(self) ==
    LET parameters ==
            ParametersOf("ModelParameter", self.request.parameters)
            \o ParametersOf("StructureParameter",
                            self.request.structure_parameters)
    IN IF \/ self.request.parameters = NoList
          \/ \A i \in DOMAIN self.request.parameters :
                self.request.parameters[i] = LABEL_ANY
       THEN [class |-> "ConsistencyScenario", parameters |-> parameters]
       ELSE IF self.model = "EnsembleModel"
       THEN [class |-> "Exception", parameters |-> <<>>]
       ELSE [class |-> "ParameterSynthesisScenario",
             parameters |-> parameters]

\* no work unit in play
IdleScenario ==
    /\ request = [parameters |-> NoList, structure_parameters |-> NoList]
    /\ model = "PetrinetModel"
    /\ dispatched = [class |-> "none", parameters |-> <<>>]

(* --------------------------- FunmanResults ----------------------------- *)
\* a ParameterSpace is identified by the value its labeled_volume() returns
ParameterSpaces == [labeled_volume : 0..MaxVol]

\* a scenario is identified by the two volumes it reports
Scenarios == [search_space_volume : 0..MaxVol,
              representable_space_volume : 0..MaxVol]

\* a scenario result: its class and the parameter space it carries
ScenarioResults ==
    [class : {"ConsistencyScenarioResult", "ParameterSynthesisScenarioResult"},
     parameter_space : ParameterSpaces \cup {None}]

\* the fields of a FunmanResults after construction
FunmanResults ==
    [f \in {"_finalized", "done", "error", "parameter_space",
            "progress.progress", "progress.coverage_of_search_space",
            "progress.coverage_of_representable_space"} |->
        CASE f = "_finalized" -> FALSE
          [] f = "done" -> FALSE
          [] f = "error" -> FALSE
          [] f = "parameter_space" -> None
          [] OTHER -> Zero]

is_final(self) == self["_finalized"]

\* a method body is the sequence of field assignments it performs, in
\* program order, and the exception that ends it ("none": it returns)
Body(w, e) == [writes |-> w, raised |-> e]

RECURSIVE ApplyWrites(_, _)
ApplyWrites(self, w) ==
    IF w = <<>> THEN self
    ELSE ApplyWrites([self EXCEPT ![Head(w)[1]] = Head(w)[2]], Tail(w))

coverage_of_search_space(scenario, results) ==
    IF scenario.search_space_volume = 0 THEN Zero
    ELSE Frac(results.labeled_volume, scenario.search_space_volume)

coverage_of_repr_space(scenario) ==
    IF scenario.representable_space_volume = 0 THEN Zero
    ELSE Frac(scenario.search_space_volume,
              scenario.representable_space_volume)

\* progress.progress taken from the wrong ratio
update_parameter_space_wrong_progress(self, scenario, results) ==
    Body(<< <<"parameter_space", results>>,
            <<"progress.progress", coverage_of_repr_space(scenario)>>,
            <<"progress.coverage_of_search_space",
              coverage_of_search_space(scenario, results)>>,
            <<"progress.coverage_of_representable_space",
              coverage_of_repr_space(scenario)>> >>,
         "none")

update_parameter_space(self, scenario, results) ==
    Body(<< <<"parameter_space", results>>,
            <<"progress.progress", coverage_of_search_space(scenario, results)>>,
            <<"progress.coverage_of_search_space",
              coverage_of_search_space(scenario, results)>>,
            <<"progress.coverage_of_representable_space",
              coverage_of_repr_space(scenario)>> >>,
         "none")

finalize_result(self, scenario, result) ==
    IF self["_finalized"]
    THEN Body(<<>>, "FunmanResults was already finalized")
    ELSE LET ps == IF result.class \in {"ConsistencyScenarioResult",
                                        "ParameterSynthesisScenarioResult"}
                   THEN result.parameter_space ELSE None
         IN IF ps = None
            THEN Body(<< <<"_finalized", TRUE>> >>,
                      "No ParameterSpace for result")
            ELSE Body(<< <<"_finalized", TRUE>> >>
                      \o update_parameter_space(self, scenario, ps).writes
                      \o << <<"done", TRUE>>, <<"progress.progress", One>> >>,
                      "none")

\* the double-finalize guard left out
finalize_result_as_error_unguarded(self) ==
    Body(<< <<"_finalized", TRUE>>, <<"error", TRUE>>,
            <<"done", TRUE>>, <<"progress.progress", One>> >>,
         "none")

finalize_result_as_error(self) ==
    IF self["_finalized"]
    THEN Body(<<>>, "FunmanResults was already finalized")
    ELSE Body(<< <<"_finalized", TRUE>>, <<"error", TRUE>>,
                 <<"done", TRUE>>, <<"progress.progress", One>> >>,
              "none")

(* ------------- one caller: every call runs to completion --------------- *)
InitRes ==
    /\ res = FunmanResults
    /\ lastOp = "init"
    /\ lastArgs = <<>>
    /\ raised = "none"
    /\ finalizeCalled = FALSE

InitConc ==
    /\ pc = 0
    /\ cur = Body(<<>>, "none")
    /\ pre = FunmanResults
    /\ observed = "nothing"

Init == InitRes /\ InitConc /\ IdleInterval /\ IdleScenario /\ IdleSymbols

Call(method, args, body, fin) ==
    /\ res' = ApplyWrites(res, body.writes)
    /\ raised' = body.raised
    /\ lastOp' = method
    /\ lastArgs' = args
    /\ finalizeCalled' = (finalizeCalled \/ fin)
    /\ UNCHANGED <<concVars, intVars, scVars, symVars>>

UpdateParameterSpace ==
    \E scenario \in Scenarios, results \in ParameterSpaces :
        Call("update_parameter_space", <<scenario, results>>,
             update_parameter_space(res, scenario, results), FALSE)

FinalizeResult ==
    \E scenario \in Scenarios, result \in ScenarioResults :
        Call("finalize_result", <<result>>,
             finalize_result(res, scenario, result), TRUE)

FinalizeResultAsError ==
    Call("finalize_result_as_error", <<>>,
         finalize_result_as_error(res), TRUE)

Next == UpdateParameterSpace \/ FinalizeResult \/ FinalizeResultAsError

Spec == Init /\ [][Next]_vars

(* ---------------- intervals: the methods as actions -------------------- *)
InitInterval ==
    /\ InitRes /\ InitConc /\ IdleScenario /\ IdleSymbols
    /\ a \in Operands
    /\ b \in Operands
    /\ op = "new"
    /\ arg = 0
    /\ out = <<>>

Apply(name, x, result) ==
    /\ op = "new"
    /\ op' = name
    /\ arg' = x
    /\ out' = result
    /\ UNCHANGED <<a, b, res, resVars, concVars, scVars, symVars>>

Contains == Apply("contains", 0, contains(a, b))
Disjoint == Apply("disjoint", 0, disjoint(a, b))
Intersects == Apply("intersects", 0, intersects(a, b))
Intersection == Apply("intersection", 0, intersection(a, b))
Subtract == Apply("subtract", 0, subtract(a, b))
Union == Apply("union", 0, union(a, b))
Normalize == \E f \in 1..MaxFactor : Apply("normalize", f, normalize(a, f))
FromValue == \E v \in FiniteBounds \cup {NEG_INFINITY, POS_INFINITY} :
                Apply("from_value", v, from_value(v))

NextInterval ==
    \/ Contains
    \/ Disjoint
    \/ Intersects
    \/ Intersection
    \/ Subtract
    \/ Union
    \/ Normalize
    \/ FromValue

SpecInterval == InitInterval /\ [][NextInterval]_vars

(* ---------------- work units: the dispatch as an action ---------------- *)
InitScenario ==
    /\ InitRes /\ InitConc /\ IdleInterval /\ IdleSymbols
    /\ request \in Requests
    /\ model \in Models
    /\ dispatched = [class |-> "none", parameters |-> <<>>]

ToScenario ==
    /\ dispatched.class = "none"
    /\ dispatched' = to_scenario([request |-> request, model |-> model])
    /\ UNCHANGED <<request, model, res, resVars, concVars, intVars, symVars>>

NextScenario == ToScenario

SpecScenario == InitScenario /\ [][NextScenario]_vars

(* ---------------- symbols: the extraction as an action ----------------- *)
InitSymbols ==
    /\ InitRes /\ InitConc /\ IdleInterval /\ IdleScenario
    /\ point \in Points
    /\ variables \in VariableLists
    /\ timeseries = [raised |-> "new", a_series |-> <<>>]

SymbolTimeseries ==
    /\ timeseries.raised = "new"
    /\ timeseries' = symbol_timeseries(point, variables)
    /\ UNCHANGED <<point, variables, res, resVars, concVars, intVars, scVars>>

NextSymbols == SymbolTimeseries

SpecSymbols == InitSymbols /\ [][NextSymbols]_vars

(* ------- one writer, one polling reader: calls run write by write ------- *)
\* what a status poll reads: progress, done, error and is_final()
View(r) ==
    <<r["progress.progress"], r["progress.coverage_of_search_space"],
      r["progress.coverage_of_representable_space"],
      r["done"], r["error"], is_final(r)>>

Begin(body) ==
    /\ pc = 0
    /\ pc' = 1
    /\ cur' = body
    /\ pre' = res
    /\ UNCHANGED <<res, observed, resVars, intVars, scVars, symVars>>

BeginUpdateParameterSpace ==
    \E scenario \in Scenarios, results \in ParameterSpaces :
        Begin(update_parameter_space(res, scenario, results))

BeginFinalizeResult ==
    \E scenario \in Scenarios, result \in ScenarioResults :
        Begin(finalize_result(res, scenario, result))

BeginFinalizeResultAsError ==
    Begin(finalize_result_as_error(res))

\* the writer performs its next field assignment
WriterStep ==
    /\ pc \in 1..Len(cur.writes)
    /\ res' = ApplyWrites(res, <<cur.writes[pc]>>)
    /\ pc' = pc + 1
    /\ UNCHANGED <<cur, pre, observed, resVars, intVars, scVars, symVars>>

\* the writer's call returns, or raises
WriterReturn ==
    /\ pc = Len(cur.writes) + 1
    /\ pc' = 0
    /\ UNCHANGED <<res, cur, pre, observed, resVars, intVars, scVars, symVars>>

\* the reader polls: it records whether what it sees is the snapshot that
\* held before the writer's call started, the one that holds after that
\* call has returned, or neither
ReaderPoll ==
    /\ observed' = IF View(res) = View(pre) THEN "before"
                   ELSE IF View(res) = View(ApplyWrites(pre, cur.writes))
                        THEN "after"
                        ELSE "torn"
    /\ UNCHANGED <<res, pc, cur, pre, resVars, intVars, scVars, symVars>>

NextConc ==
    \/ BeginUpdateParameterSpace
    \/ BeginFinalizeResult
    \/ BeginFinalizeResultAsError
    \/ WriterStep
    \/ WriterReturn
    \/ ReaderPoll

SpecConc == Init /\ [][NextConc]_vars

(* ------------------------------ claims --------------------------------- *)
AlreadyFinalized == "FunmanResults was already finalized"
NoParameterSpace == "No ParameterSpace for result"
FinalizeOps == {"finalize_result", "finalize_result_as_error"}

\* C1: is_final() is False until the first finalize call (of either kind)
\* and True from then on, and every finalize call after the first raises
\* the 'already finalized' error and leaves done, error, progress and
\* parameter_space as they were.
C1_FinalizeOnce ==
    [][/\ is_final(res) = finalizeCalled
       /\ is_final(res') = finalizeCalled'
       /\ (finalizeCalled /\ lastOp' \in FinalizeOps)
            => /\ raised' = AlreadyFinalized
               /\ \A f \in DOMAIN res \ {"_finalized"} : res'[f] = res[f]]_vars

\* a finalize call was made on an already finalized result
C1_Witness ==
    /\ lastOp \in FinalizeOps
    /\ raised = AlreadyFinalized
    /\ is_final(res)

\* C2: when finalize_result fails on a not-yet-finalized result because the
\* scenario result carries no parameter space, the failure is explicit and
\* the caller can bring the result to error = true, done = true: either the
\* failure did it, or a following finalize_result_as_error call does.
C2_FailureReported ==
    (lastOp = "finalize_result" /\ lastArgs[1].parameter_space = None
        /\ raised # AlreadyFinalized)
    => /\ raised = NoParameterSpace
       /\ \/ res["error"] /\ res["done"]
          \/ ENABLED (FinalizeResultAsError /\ res'["error"] /\ res'["done"])

\* C3: a reader polling while the single writer runs update_parameter_space,
\* finalize_result or finalize_result_as_error never sees a torn state: what
\* it reads is the combination that held before the writer's call started,
\* or the one that holds after the call has returned.
C3_NoTornRead ==
    observed \in {"nothing", "before", "after"}

\* the fields the claim C4 speaks of, after update_parameter_space(args)
C4_After(r, args) ==
    LET scenario == args[1]
        results == args[2]
        sv == scenario.search_space_volume
        rv == scenario.representable_space_volume
        css == r["progress.coverage_of_search_space"]
        crs == r["progress.coverage_of_representable_space"]
    IN /\ r["parameter_space"] = results
       /\ IF sv = 0 THEN css = Zero
          ELSE css[1] * sv = results.labeled_volume * css[2]
       /\ IF rv = 0 THEN crs = Zero
          ELSE crs[1] * rv = sv * crs[2]
       /\ r["progress.progress"] = css

\* C4: after update_parameter_space(scenario, results), parameter_space is
\* results, coverage_of_search_space is labeled_volume / search_volume (0
\* when search_volume is 0), coverage_of_representable_space is
\* search_volume / representable_volume (0 when representable_volume is 0)
\* and progress.progress is coverage_of_search_space; a second call with
\* the same inputs changes none of these fields.
C4_UpdateParameterSpace ==
    [][lastOp' = "update_parameter_space"
        => /\ C4_After(res', lastArgs')
           /\ (lastOp = "update_parameter_space" /\ lastArgs' = lastArgs)
                => res' = res]_vars

\* an update with search_volume = 0 and a non-empty labeled volume
C4_Witness ==
    /\ lastOp = "update_parameter_space"
    /\ lastArgs[1].search_space_volume = 0
    /\ lastArgs[2].labeled_volume > 0
    /\ res["progress.coverage_of_search_space"] = Zero


\* the labels of the parameter list: model parameters, then structure
\* parameters
C5_Labels ==
    (IF request.parameters = NoList THEN <<>> ELSE request.parameters)
    \o (IF request.structure_parameters = NoList THEN <<>>
        ELSE request.structure_parameters)

\* C5: to_scenario builds the parameter list from the model parameters plus
\* the structure parameters and returns a Consistency scenario exactly when
\* the request has no parameters or every parameter of that list is
\* labelled ANY; otherwise it returns a Parameter-Synthesis scenario, or
\* raises the unsupported-mode error when the model is an ensemble.
C5_Dispatch ==
    dispatched.class # "none"
    => /\ dispatched.class =
            IF \/ request.parameters \in {NoList, <<>>}
               \/ \A i \in DOMAIN C5_Labels : C5_Labels[i] = LABEL_ANY
            THEN "ConsistencyScenario"
            ELSE IF model = "EnsembleModel" THEN "Exception"
            ELSE "ParameterSynthesisScenario"
       /\ dispatched.class # "Exception"
            => /\ Len(dispatched.parameters) = Len(C5_Labels)
               /\ \A i \in DOMAIN C5_Labels :
                    dispatched.parameters[i].label = C5_Labels[i]

\* the bounds of what intersection() returned; no bounds for the empty list
C6_Bounds(r) ==
    IF r.type = "Interval"
    THEN <<Float(r.value[1].lb), Float(r.value[1].ub)>>
    ELSE r.value

\* C6: if a.contains(b) then a.intersection(b) has the lower bound and the
\* upper bound of b (as floats).
C6_ContainsIntersection ==
    (op = "intersection" /\ contains(a, b))
    => C6_Bounds(out) = <<Float(b.lb), Float(b.ub)>>

C7_Lower(x, y) == IF lt(y, x) THEN y ELSE x
C7_Upper(x, y) == IF lt(x, y) THEN y ELSE x

\* C7: a.union(b) is a single interval exactly when a and b are not
\* disjoint or meet, and that interval spans both operands: its lower bound
\* is the smaller lower bound and its upper bound the larger upper bound;
\* otherwise it is the two operands, unchanged, ordered by lower bound.
C7_Union ==
    op = "union"
    => /\ (Len(out) = 1) <=> (~disjoint(a, b) \/ meets(a, b))
       /\ Len(out) = 1
            => /\ out[1].lb = C7_Lower(a.lb, b.lb)
               /\ out[1].ub = C7_Upper(a.ub, b.ub)
       /\ Len(out) # 1
            => /\ out \in {<<a, b>>, <<b, a>>}
               /\ lte(out[1].lb, out[2].lb)

\* the intervals that exist: the operands and what the method returned
C8_Intervals ==
    {a, b}
    \cup (IF op \in {"subtract", "union"} THEN {out[i] : i \in DOMAIN out}
          ELSE IF op \in {"normalize", "from_value"} THEN {out}
          ELSE {})

\* C8: every interval, whether constructed, made by from_value or returned
\* by subtract, union or normalize on intervals that satisfy the invariant,
\* has lb <= ub, and has closed_upper_bound = true when lb = ub.
C8_IntervalInvariant ==
    \A i \in C8_Intervals :
        /\ lte(i.lb, i.ub)
        /\ i.lb = i.ub => i.closed_upper_bound

C9_Unbounded == Interval(NEG_INFINITY, POS_INFINITY, FALSE)
C9_ZeroOne == Interval(<<0, 1>>, <<1, 1>>, FALSE)

\* C9: if a.contains(b) then every value that b contains is a value that a
\* contains, whatever the sentinels and the closed_upper_bound flags; the
\* unbounded interval contains [0,1) and [0,1) does not contain it.
C9_ContainsIsSuperset ==
    op = "contains"
    => /\ out => \A v \in FiniteBounds :
                    contains_value(b, v) => contains_value(a, v)
       /\ (a = C9_Unbounded /\ b = C9_ZeroOne) => out
       /\ (a = C9_ZeroOne /\ b = C9_Unbounded) => ~out

\* x is y divided by f (a sentinel stays the same sentinel)
C10_Quotient(x, y, f) ==
    IF IsSentinel(y) THEN x = y
    ELSE ~IsSentinel(x) /\ x[1] * f * y[2] = y[1] * x[2]

\* C10: a.normalize(f), f positive, has lower bound a.lb / f and upper
\* bound a.ub / f.
C10_Normalize ==
    op = "normalize"
    => /\ C10_Quotient(out.lb, a.lb, arg)
       /\ C10_Quotient(out.ub, a.ub, arg)

\* C11: when a.subtract(b) returns an interval, every value that interval
\* contains is contained in a and is not contained in b; subtract returns
\* no interval when a.lb equals b.lb.
C11_Subtract ==
    op = "subtract"
    => /\ Len(out) = 1
            => \A v \in FiniteBounds :
                contains_value(out[1], v)
                => contains_value(a, v) /\ ~contains_value(b, v)
       /\ a.lb = b.lb => out = <<>>

\* r1 is at least r2 (two floats)
C13_AtLeast(r1, r2) == r1[1] * r2[2] >= r2[1] * r1[2]

\* done implies progress.progress = 1.0 and is_final()
C13_Terminal(r) ==
    r["done"] => r["progress.progress"] = One /\ is_final(r)

\* C13: in every state reached by update_parameter_space, finalize_result
\* and finalize_result_as_error calls, done implies progress.progress = 1.0
\* and is_final(); once done, no later call lowers progress.progress or
\* clears done, error or the finalized flag.
C13_TerminalStaysTerminal ==
    [][/\ C13_Terminal(res)
       /\ C13_Terminal(res')
       /\ res["done"]
            => /\ res'["done"]
               /\ res["error"] => res'["error"]
               /\ is_final(res')
               /\ C13_AtLeast(res'["progress.progress"],
                              res["progress.progress"])]_vars

\* C14: a.intersects(b) is true exactly when a.disjoint(b) is false, and
\* both are symmetric: a.intersects(b) = b.intersects(a) and
\* a.disjoint(b) = b.disjoint(a).
C14_IntersectsIffNotDisjoint ==
    op = "intersects"
    => /\ out = ~disjoint(a, b)
       /\ out = intersects(b, a)
       /\ disjoint(a, b) = disjoint(b, a)

\* symbol is '<v>_<digit string>' for the requested variable v
C12_Matches(symbol, v) ==
    /\ Len(symbol) > Len(v) + 1
    /\ SubSeq(symbol, 1, Len(v) + 1) = v \o <<"_">>
    /\ isdigit(SubSeq(symbol, Len(v) + 2, Len(symbol)))

\* the timepoint of such a symbol
C12_Timepoint(symbol, v) == int(SubSeq(symbol, Len(v) + 2, Len(symbol)))

C12_Requested == {variables[i] : i \in DOMAIN variables}

\* the items of the point that are symbols of the requested variable v
C12_Observed(v) == {i \in DOMAIN point : C12_Matches(point[i][1], v)}

C12_MaxTimepoint ==
    max({0} \cup {C12_Timepoint(point[i][1], v) :
                    <<i, v>> \in {x \in (DOMAIN point) \X C12_Requested :
                                  C12_Matches(point[x[1]][1], x[2])}})

\* C12: symbol_timeseries returns a mapping whose 'index' is
\* 0..max_timepoint and that has, for each requested variable with observed
\* symbols, an array of length max_timepoint + 1 whose slot t is the value
\* of the symbol '<variable>_<t>', or null when there is no such symbol; a
\* symbol that is not '<requested variable>_<digit string>' adds no key and
\* no value.
C12_SymbolTimeseries ==
    timeseries.raised \notin {"idle", "new"}
    => /\ (\E v \in C12_Requested : C12_Observed(v) # {})
            => timeseries.raised = "none"
       /\ timeseries.raised = "none"
            => LET r == timeseries.a_series
               IN /\ DictGet(r, INDEX)
                        = [i \in 1..(C12_MaxTimepoint + 1) |-> i - 1]
                  /\ DictKeys(r) \ {INDEX}
                        = {v \in C12_Requested : C12_Observed(v) # {}}
                  /\ \A v \in DictKeys(r) \ {INDEX} :
                        /\ Len(DictGet(r, v)) = C12_MaxTimepoint + 1
                        /\ \A t \in 0..C12_MaxTimepoint :
                            LET at == {i \in C12_Observed(v) :
                                        C12_Timepoint(point[i][1], v) = t}
                            IN DictGet(r, v)[t + 1] \in
                                IF at = {} THEN {None}
                                ELSE {point[i][2] : i \in at}

\* the example of the specification: x_0 = 1.0 and x_1 = 2.0, variable x
C12_Example ==
    (point = << <<<<"x", "_", "0">>, [float |-> 1]>>,
                <<<<"x", "_", "1">>, [float |-> 2]>> >>
     /\ variables = <<<<"x">>>> /\ timeseries.raised # "new")
    => timeseries =
        [raised |-> "none",
         a_series |-> << <<INDEX, <<0, 1>>>>,
                         <<<<"x">>, <<[float |-> 1], [float |-> 2]>>>> >>]

====
